---- MODULE Spec2Model ----
(***************************************************************************)
(* Job queue, worker pool and per-job pipeline of yt_downloader.py.        *)
(*                                                                         *)
(* The UI thread runs the App handlers (add_to_queue, clear_queue,         *)
(* start_workers, stop_workers) and the callbacks handed to App.schedule;  *)
(* every DownloadWorker thread runs DownloadWorker.run.  A job is named by *)
(* the position at which add_to_queue pushed it; distinct jobs have        *)
(* distinct urls and titles, so every job has its own files.               *)
(*                                                                         *)
(* App.log writes to the Text widget from whichever thread calls it.  On   *)
(* a worker thread that is a Tk call made off the UI thread: it either     *)
(* goes through or raises, and the model takes both outcomes.  The text of *)
(* the log widget is not kept: what a log call leaves in the state is      *)
(* where its caller goes on.                                               *)
(***************************************************************************)
EXTENDS Integers, Sequences, FiniteSets, TLC

\* ------------------------------------------------------------- bounds
MaxJobs == 2        \* jobs add_to_queue may push in one run
MaxThreads == 2     \* DownloadWorker threads ever created in one run
MaxCount == 2       \* largest value read from the worker-count spinbox
PipeJobs == 1       \* jobs pushed in the pipeline specification
LiveJobs == 3       \* jobs pushed in the liveness specification
ObsJobs == 2        \* jobs pushed in the specification with the Tk event loop
MaxMarkLen == 3     \* characters of a trim mark typed into the entry
MaxFormats == 2     \* entries of info['formats']
MaxChunks == 4      \* chunks of 25 bytes a progress event may report as downloaded

\* ------------------------------------------------------------- program constants
MAX_WORKERS == 2

VARIABLES
    tasks_q,        \* App.tasks_q: the pending jobs, oldest first
    unfinished,     \* tasks_q.unfinished_tasks (put increments, task_done decrements)
    workers,        \* App.workers: the list of started DownloadWorker threads
    max_workers,    \* App.max_workers
    thr,            \* per thread: position in run/process_task, running flag, task
    jobs,           \* per pushed job: options, run state, files on disk, log lines
    ui_q,           \* callbacks handed to root.after(0, ...), not yet run
    history,        \* App.history, newest first
    status_var,     \* App.status_var
    progress_var,   \* App.progress_var
    notice,         \* the last message box shown ("" when none)
    call            \* the helper call in hand: its arguments and what it returned

vars == <<tasks_q, unfinished, workers, max_workers, thr, jobs, ui_q, history,
          status_var, progress_var, notice, call>>

\* Everything but the helper call in hand.
appvars == <<tasks_q, unfinished, workers, max_workers, thr, jobs, ui_q, history,
             status_var, progress_var, notice>>

Threads == 1..MaxThreads

\* ------------------------------------------------------------- paths
\* A file path split the way os.path.splitext splits it.
NoPath == [stem |-> "", ext |-> ""]

\* ydl.prepare_filename(info): the title and the container the fetch produced.
FetchedPath(e) == [stem |-> "title", ext |-> e]

\* The containers a fetch may produce; a plain job's run does not depend on which.
FetchedExts == {"webm", "mp3"}

PoolExts == {"webm"}

\* os.path.splitext(out_file)[0] + ".mp3"
Mp3Path(p) == [stem |-> p.stem, ext |-> "mp3"]

\* os.path.splitext(out_file)[0] + "_trimmed" + os.path.splitext(out_file)[1]
TrimmedPath(p) == [stem |-> p.stem \o "_trimmed", ext |-> p.ext]

\* ------------------------------------------------------------- options
\* opts as add_to_queue builds them; trim stands for opts['start'] or opts['end'].
AllOpts == [audio_only : BOOLEAN, convert_mp3 : BOOLEAN, trim : BOOLEAN, subs : BOOLEAN]

PlainOpts == [audio_only |-> FALSE, convert_mp3 |-> FALSE, trim |-> FALSE, subs |-> FALSE]

FullOpts == [audio_only |-> TRUE, convert_mp3 |-> TRUE, trim |-> TRUE, subs |-> TRUE]

PoolOpts == {PlainOpts}

\* ------------------------------------------------------------- jobs
\* What is kept of a job: opts as pushed; stage and err follow the position of
\* process_task; out_file is process_task's local; fetched is out_file as the fetch
\* set it; disk holds the job's files; ran holds the stages and commands that were
\* run; failed holds the stages whose except clause was entered; direct holds the
\* App methods process_task called on the worker thread itself, not through
\* App.schedule; emitted holds the App calls the worker issued for the job, in the
\* order it issued them, and seen those that have run, in the order they ran; cmds
\* holds the trim commands that were run, in order, each with how it ended; gets
\* counts the times a worker's q.get() returned the job.
\* ------------------------------------------------------------- pipeline order
\* The position process_task reaches after each stage, from its if-conditions.
AfterTrim(o) == IF o.subs THEN "subs" ELSE "final"

AfterConvert(o) == IF o.trim THEN "trim" ELSE AfterTrim(o)

AfterFetch(o) == IF o.audio_only /\ o.convert_mp3 THEN "convert" ELSE AfterConvert(o)

StageOf(pc) ==
    CASE pc = "fetch" -> "Fetching"
      [] pc = "convert" -> "Converting"
      [] pc = "trim" -> "Trimming"
      [] pc = "subs" -> "FetchingSubtitles"
      [] pc = "final" -> "Finalizing"

InTask == {"fetch", "convert", "trim", "subs", "final"}

NewJob(o) ==
    [opts |-> o, stage |-> "Queued", err |-> "none", out_file |-> NoPath,
     fetched |-> NoPath, disk |-> {}, ran |-> {}, failed |-> {}, direct |-> {},
     emitted |-> <<>>, seen |-> <<>>, cmds |-> <<>>, gets |-> 0]

\* stopped_in is the job the thread was processing when stop() was called on it
\* (0 when it was between jobs or was never stopped).
\* stopped_at is the number of jobs that had been pushed when stop() was called on
\* the thread (0 when it was never stopped).
NewThread ==
    [pc |-> "unborn", running |-> FALSE, task |-> 0, stopped_in |-> 0, stopped_at |-> 0]

Ev(k, j, txt, f, pct) == [k |-> k, j |-> j, txt |-> txt, file |-> f, pct |-> pct]

\* What emitted and seen keep of a call: the method and its text.
Tag(e) == <<e.k, e.txt>>

\* The worker hands the callbacks evs to App.schedule.
Emit(job, evs) == [job EXCEPT !.emitted = @ \o [i \in 1..Len(evs) |-> Tag(evs[i])]]

\* The worker calls self.ui.log(txt); the line is written at once unless the call
\* raises.
Log(job, txt, raises) ==
    [job EXCEPT !.emitted = Append(@, <<"log", txt>>),
                !.seen = IF raises THEN @ ELSE Append(@, <<"log", txt>>)]

\* ------------------------------------------------------------- Init
\* No helper call is in hand.
NoCall == [f |-> "none"]

\* The App as __init__ leaves it.
AppInit ==
    /\ tasks_q = <<>>
    /\ unfinished = 0
    /\ workers = <<>>
    /\ max_workers = MAX_WORKERS
    /\ thr = [t \in Threads |-> NewThread]
    /\ jobs = <<>>
    /\ ui_q = <<>>
    /\ history = <<>>
    /\ status_var = "Ready"
    /\ progress_var = 0
    /\ notice = ""

Init == AppInit /\ call = NoCall

\* ------------------------------------------------------------- UI thread
Max(a, b) == IF a >= b THEN a ELSE b

\* add_to_queue putting the task at the head of the queue.
add_to_queue_front(o, limit) ==
    /\ Len(jobs) < limit
    /\ jobs' = Append(jobs, NewJob(o))
    /\ tasks_q' = <<Len(jobs) + 1>> \o tasks_q
    /\ unfinished' = unfinished + 1
    /\ UNCHANGED <<workers, max_workers, thr, ui_q, history, status_var, progress_var,
                   notice, call>>

\* App.add_to_queue, the url being non-empty: the task is put at the tail of
\* tasks_q.  limit bounds the jobs of one run.
add_to_queue(o, limit) ==
    /\ Len(jobs) < limit
    /\ jobs' = Append(jobs, NewJob(o))
    /\ tasks_q' = Append(tasks_q, Len(jobs) + 1)
    /\ unfinished' = unfinished + 1
    /\ UNCHANGED <<workers, max_workers, thr, ui_q, history, status_var, progress_var,
                   notice, call>>

\* clear_queue dropping the oldest pending task only.
clear_queue_oldest ==
    /\ tasks_q' = IF tasks_q = <<>> THEN <<>> ELSE Tail(tasks_q)
    /\ UNCHANGED <<unfinished, workers, max_workers, thr, jobs, ui_q, history,
                   status_var, progress_var, notice, call>>

\* App.clear_queue: tasks_q.queue.clear() under the queue's mutex.
clear_queue ==
    /\ tasks_q' = <<>>
    /\ UNCHANGED <<unfinished, workers, max_workers, thr, jobs, ui_q, history,
                   status_var, progress_var, notice, call>>

\* The ids of the next n threads to be created.
Unborn == {t \in Threads : thr[t].pc = "unborn"}

FirstUnborn == CHOOSE t \in Unborn : \A u \in Unborn : t <= u

\* start_workers without its test of len(self.workers).
start_workers_unguarded(cnt, limit) ==
    LET n == Max(1, cnt)
        first == FirstUnborn
    IN  /\ Unborn # {}
        /\ first + n - 1 <= limit
        /\ max_workers' = n
        /\ thr' = [t \in Threads |->
                     IF t >= first /\ t < first + n
                     THEN [NewThread EXCEPT !.pc = "loop", !.running = TRUE]
                     ELSE thr[t]]
        /\ workers' = workers \o [i \in 1..n |-> first + i - 1]
        /\ status_var' = "Running"
        /\ UNCHANGED <<tasks_q, unfinished, jobs, ui_q, history, progress_var, notice, call>>

\* App.start_workers: cnt is worker_count_var.get().  limit bounds the threads
\* of one run.
start_workers(cnt, limit) ==
    IF Len(workers) > 0
    THEN /\ notice' = "Workers already running."
         /\ UNCHANGED <<tasks_q, unfinished, workers, max_workers, thr, jobs, ui_q,
                        history, status_var, progress_var, call>>
    ELSE LET n == Max(1, cnt)
             first == FirstUnborn
         IN  /\ Unborn # {}
             /\ first + n - 1 <= limit
             /\ max_workers' = n
             /\ thr' = [t \in Threads |->
                          IF t >= first /\ t < first + n
                          THEN [NewThread EXCEPT !.pc = "loop", !.running = TRUE]
                          ELSE thr[t]]
             /\ workers' = [i \in 1..n |-> first + i - 1]
             /\ status_var' = "Running"
             /\ UNCHANGED <<tasks_q, unfinished, jobs, ui_q, history, progress_var,
                            notice, call>>

\* App.stop_workers: w.stop() for every listed worker, then workers.clear().
stop_workers ==
    /\ thr' = [t \in Threads |->
                 IF \E i \in 1..Len(workers) : workers[i] = t
                 THEN [thr[t] EXCEPT !.running = FALSE,
                                     !.stopped_at = Len(jobs),
                                     !.stopped_in = IF thr[t].pc \in InTask
                                                    THEN thr[t].task ELSE 0]
                 ELSE thr[t]]
    /\ workers' = <<>>
    /\ status_var' = "Ready"
    /\ UNCHANGED <<tasks_q, unfinished, max_workers, jobs, ui_q, history,
                   progress_var, notice, call>>

\* App.add_history: insert at the front (save and refresh follow from history).
add_history(url, filepath) == <<[url |-> url, file |-> filepath]>> \o history

\* The Tk event loop runs the oldest callback handed to root.after(0, ...).
Dispatch ==
    /\ ui_q # <<>>
    /\ LET e == Head(ui_q)
       IN  /\ ui_q' = Tail(ui_q)
           /\ history' = IF e.k = "add_history" THEN add_history(e.j, e.file)
                         ELSE history
           /\ status_var' = IF e.k = "set_status" THEN e.txt ELSE status_var
           /\ progress_var' = IF e.k = "update_progress" THEN e.pct ELSE progress_var
           /\ notice' = IF e.k = "showerror" THEN "Download failed" ELSE notice
           /\ jobs' = [jobs EXCEPT ![e.j].seen = Append(@, Tag(e))]
    /\ UNCHANGED <<tasks_q, unfinished, workers, max_workers, thr, call>>

\* ------------------------------------------------------------- DownloadWorker.run
\* while self.running:
WorkerLoop(t) ==
    /\ thr[t].pc = "loop"
    /\ thr' = [thr EXCEPT ![t].pc = IF thr[t].running THEN "get" ELSE "exited"]
    /\ UNCHANGED <<tasks_q, unfinished, workers, max_workers, jobs, ui_q, history,
                   status_var, progress_var, notice, call>>

\* task = self.q.get(timeout=0.5) times out: except queue.Empty: continue.
WorkerEmpty(t) ==
    /\ thr[t].pc = "get"
    /\ tasks_q = <<>>
    /\ thr' = [thr EXCEPT ![t].pc = "loop"]
    /\ UNCHANGED <<tasks_q, unfinished, workers, max_workers, jobs, ui_q, history,
                   status_var, progress_var, notice, call>>

\* ------------------------------------------------------------- progress hook (process_task)
\* The dict yt_dlp hands to the hook; 0 stands for a key that is missing or None.
\* A total that is known is never below what was downloaded; an estimate may be.
ProgressDicts ==
    {d \in [status : {"downloading", "finished", "error"}, total_bytes : {0, 100},
            total_bytes_estimate : {0, 50},
            downloaded_bytes : {25 * i : i \in 0..MaxChunks}] :
       d.total_bytes # 0 => d.downloaded_bytes <= d.total_bytes}

\* pct = (db / tb * 100) if tb else 0, in hundredths of a percent, rounded down.
Percent(db, tb) == IF tb # 0 THEN (db * 10000) \div tb ELSE 0

\* DownloadWorker.process_task.progress for job j: the callbacks it schedules.
progress(j, d) ==
    IF d.status = "downloading"
    THEN LET tb == IF d.total_bytes # 0 THEN d.total_bytes ELSE d.total_bytes_estimate
             pct == Percent(d.downloaded_bytes, tb)
         IN  <<Ev("update_progress", j, "", NoPath, pct),
               Ev("set_status", j, "Downloading... %", NoPath, pct)>>
    ELSE IF d.status = "finished"
    THEN <<Ev("update_progress", j, "", NoPath, 10000),
           Ev("set_status", j, "Finalizing...", NoPath, 0)>>
    ELSE <<>>

\* The calls of the hook during a fetch that succeeds: one while downloading, one
\* when finished.
HookCalls ==
    <<[status |-> "downloading", total_bytes |-> 100, total_bytes_estimate |-> 0,
       downloaded_bytes |-> 50],
      [status |-> "finished", total_bytes |-> 100, total_bytes_estimate |-> 0,
       downloaded_bytes |-> 100]>>

Hooked(j) == progress(j, HookCalls[1]) \o progress(j, HookCalls[2])

\* ------------------------------------------------------------- process_task
\* An exception leaves process_task for job j: run's except Exception clause calls
\* self.ui.log("Task error ..."), then finally: self.q.task_done().  When that log
\* call raises too (fault2), the exception leaves run and the thread ends.
Raised(t, j, job, fault2) ==
    /\ thr' = [thr EXCEPT ![t].pc = IF fault2 THEN "dead" ELSE "loop", ![t].task = 0]
    /\ jobs' = [jobs EXCEPT ![j] =
                  IF job.stage = "Done" THEN Log(job, "Task error", fault2)
                  ELSE [Log(job, "Task error", fault2) EXCEPT
                          !.stage = "Failed",
                          !.err = IF job.err = "none" THEN "task" ELSE job.err]]
    /\ unfinished' = unfinished - 1

\* process_task returns: finally: self.q.task_done(), back to the while test.
Returned(t, j, job) ==
    /\ thr' = [thr EXCEPT ![t].pc = "loop", ![t].task = 0]
    /\ jobs' = [jobs EXCEPT ![j] = job]
    /\ unfinished' = unfinished - 1

\* Goes with a test of self.running before each stage: a stopped worker drops
\* the job and leaves run.
GoesIfRunning(t, j, job, pc) ==
    /\ thr' = [thr EXCEPT ![t].pc = IF thr[t].running THEN pc ELSE "exited",
                          ![t].task = IF thr[t].running THEN j ELSE 0]
    /\ jobs' = [jobs EXCEPT ![j] = IF thr[t].running
                                   THEN [job EXCEPT !.stage = StageOf(pc)] ELSE job]
    /\ UNCHANGED unfinished

\* process_task goes on with the stage at position pc.
Goes(t, j, job, pc) ==
    /\ thr' = [thr EXCEPT ![t].pc = pc, ![t].task = j]
    /\ jobs' = [jobs EXCEPT ![j] = [job EXCEPT !.stage = StageOf(pc)]]
    /\ UNCHANGED unfinished

\* WorkerGet reading the head of the queue without removing it.
WorkerGetKeeps(t) ==
    /\ thr[t].pc = "get"
    /\ tasks_q # <<>>
    /\ LET j == Head(tasks_q)
           job == [jobs[j] EXCEPT !.direct = @ \cup {"log"}, !.gets = @ + 1]
       IN  /\ tasks_q' = tasks_q
           /\ \E fault \in BOOLEAN, fault2 \in BOOLEAN :
                /\ fault2 => fault
                /\ IF fault
                   THEN /\ Raised(t, j, Log(job, "Start", TRUE), fault2)
                        /\ UNCHANGED ui_q
                   ELSE LET status == <<Ev("set_status", j, "Downloading...", NoPath, 0)>>
                        IN  /\ Goes(t, j, Emit(Log(job, "Start", FALSE), status), "fetch")
                            /\ ui_q' = ui_q \o status
    /\ UNCHANGED <<workers, max_workers, history, status_var, progress_var, notice, call>>

\* task = self.q.get(timeout=0.5) returns a task; process_task(task) begins:
\* log "Start" (the call may raise), schedule the status line.
WorkerGet(t) ==
    /\ thr[t].pc = "get"
    /\ tasks_q # <<>>
    /\ LET j == Head(tasks_q)
           job == [jobs[j] EXCEPT !.direct = @ \cup {"log"}, !.gets = @ + 1]
       IN  /\ tasks_q' = Tail(tasks_q)
           /\ \E fault \in BOOLEAN, fault2 \in BOOLEAN :
                /\ fault2 => fault
                /\ IF fault
                   THEN /\ Raised(t, j, Log(job, "Start", TRUE), fault2)
                        /\ UNCHANGED ui_q
                   ELSE LET status == <<Ev("set_status", j, "Downloading...", NoPath, 0)>>
                        IN  /\ Goes(t, j, Emit(Log(job, "Start", FALSE), status), "fetch")
                            /\ ui_q' = ui_q \o status
    /\ UNCHANGED <<workers, max_workers, history, status_var, progress_var, notice, call>>

\* Fetch without the return that ends its except clause: after the error box is
\* scheduled, process_task goes on to the stages that follow.
FetchFallsThrough(t, exts) ==
    /\ thr[t].pc = "fetch"
    /\ LET j == thr[t].task
           job == [jobs[j] EXCEPT !.ran = @ \cup {"fetch"}]
           failed == [job EXCEPT !.err = "fetch"]
           box == <<Ev("showerror", j, "", NoPath, 0)>>
       IN  \/ \E e \in exts :
                /\ Goes(t, j, Emit([job EXCEPT !.out_file = FetchedPath(e),
                                               !.fetched = FetchedPath(e),
                                               !.disk = {FetchedPath(e)}], Hooked(j)),
                        AfterFetch(job.opts))
                /\ ui_q' = ui_q \o Hooked(j)
           \/ /\ Goes(t, j, Emit(Log(failed, "Download failed", FALSE), box),
                      AfterFetch(job.opts))
              /\ ui_q' = ui_q \o box
    /\ UNCHANGED <<tasks_q, workers, max_workers, history, status_var,
                   progress_var, notice, call>>

\* ydl.extract_info(url, download=True); out_file = ydl.prepare_filename(info).
\* The hook is called while the download goes on; a fetch that fails does so before
\* the hook was called.  On an exception: log "Download failed", schedule the error
\* box, return.  exts: the containers the fetch may produce.
Fetch(t, exts) ==
    /\ thr[t].pc = "fetch"
    /\ LET j == thr[t].task
           job == [jobs[j] EXCEPT !.ran = @ \cup {"fetch"}]
           failed == [job EXCEPT !.stage = "Failed", !.err = "fetch"]
           box == <<Ev("showerror", j, "", NoPath, 0)>>
       IN  \/ \E e \in exts :
                /\ Goes(t, j, Emit([job EXCEPT !.out_file = FetchedPath(e),
                                               !.fetched = FetchedPath(e),
                                               !.disk = {FetchedPath(e)}], Hooked(j)),
                        AfterFetch(job.opts))
                /\ ui_q' = ui_q \o Hooked(j)
           \/ \E fault \in BOOLEAN, fault2 \in BOOLEAN :
                /\ fault2 => fault
                /\ IF fault
                   THEN /\ Raised(t, j, Log(failed, "Download failed", TRUE), fault2)
                        /\ UNCHANGED ui_q
                   ELSE /\ Returned(t, j, Emit(Log(failed, "Download failed", FALSE), box))
                        /\ ui_q' = ui_q \o box
    /\ UNCHANGED <<tasks_q, workers, max_workers, history, status_var,
                   progress_var, notice, call>>

\* The line the except clause of a non-fatal stage logs.
FailureLine(stage) ==
    CASE stage = "convert" -> "MP3 conversion failed"
      [] stage = "trim" -> "Trim failed"
      [] stage = "subs" -> "Sub download failed"

\* A non-fatal stage ends: when it failed, its except clause logs the failure (the
\* log call may raise); then process_task goes on to position pc.
StageEnds(t, j, job, stage, failed, pc) ==
    \E fault \in BOOLEAN, fault2 \in BOOLEAN :
      LET after == IF failed
                   THEN Log([job EXCEPT !.failed = @ \cup {stage}], FailureLine(stage),
                            fault)
                   ELSE job
      IN  /\ fault => failed
          /\ fault2 => fault
          /\ IF fault
             THEN Raised(t, j, after, fault2)
             ELSE Goes(t, j, after, pc)

\* subprocess.run([ffmpeg, -y, -i, out_file, ..., mp3_path], check=True);
\* os.remove(out_file); out_file = mp3_path.  cmd: ffmpeg exits 0 and has written
\* mp3_path; rm: os.remove succeeds.
Convert(t) ==
    /\ thr[t].pc = "convert"
    /\ LET j == thr[t].task
           job == [jobs[j] EXCEPT !.ran = @ \cup {"convert"}]
           mp3_path == Mp3Path(job.out_file)
       IN  \E cmd \in BOOLEAN, rm \in BOOLEAN :
             /\ ~cmd => rm
             /\ LET written == IF cmd THEN job.disk \cup {mp3_path} ELSE job.disk
                    after == IF cmd /\ rm
                             THEN [job EXCEPT !.disk = written \ {job.out_file},
                                              !.out_file = mp3_path]
                             ELSE [job EXCEPT !.disk = written]
                IN  StageEnds(t, j, after, "convert", ~(cmd /\ rm), AfterConvert(job.opts))
    /\ UNCHANGED <<tasks_q, workers, max_workers, ui_q, history,
                   status_var, progress_var, notice, call>>

\* The stream-copy command first; when it exits non-zero, the re-encoding command
\* with check=True; then os.remove(out_file); out_file = trimmed.
\* fast: "ok" (exit 0), "nonzero", or "raise" (the command could not be run).
Trim(t) ==
    /\ thr[t].pc = "trim"
    /\ LET j == thr[t].task
           job == [jobs[j] EXCEPT !.ran = @ \cup {"trim"}]
           trimmed == TrimmedPath(job.out_file)
       IN  \E fast \in {"ok", "nonzero", "raise"}, re \in BOOLEAN, rm \in BOOLEAN :
             LET cut == fast = "ok" \/ (fast = "nonzero" /\ re)
                 written == IF cut THEN job.disk \cup {trimmed} ELSE job.disk
                 cmds == IF fast = "nonzero" THEN {"trim_copy", "trim_reencode"}
                         ELSE {"trim_copy"}
                 ends == IF fast = "nonzero"
                         THEN <<<<"trim_copy", fast>>,
                                <<"trim_reencode", IF re THEN "ok" ELSE "nonzero">>>>
                         ELSE <<<<"trim_copy", fast>>>>
                 ranCmds == [job EXCEPT !.ran = @ \cup cmds, !.cmds = @ \o ends]
                 after == IF cut /\ rm
                          THEN [ranCmds EXCEPT !.disk = written \ {job.out_file},
                                               !.out_file = trimmed]
                          ELSE [ranCmds EXCEPT !.disk = written]
             IN  /\ fast # "nonzero" => re
                 /\ ~cut => rm
                 /\ StageEnds(t, j, after, "trim", ~(cut /\ rm), AfterTrim(job.opts))
    /\ UNCHANGED <<tasks_q, workers, max_workers, ui_q, history,
                   status_var, progress_var, notice, call>>

\* yt_dlp with skip_download and writesubtitles; a failure is logged.
Subs(t) ==
    /\ thr[t].pc = "subs"
    /\ LET j == thr[t].task
           job == [jobs[j] EXCEPT !.ran = @ \cup {"subs"}]
       IN  \E ok \in BOOLEAN : StageEnds(t, j, job, "subs", ~ok, "final")
    /\ UNCHANGED <<tasks_q, workers, max_workers, ui_q, history,
                   status_var, progress_var, notice, call>>

\* final UI updates: schedule add_history, update_progress(0), set_status("Ready"),
\* then log "Completed" (the call may raise) and return.
Final(t) ==
    /\ thr[t].pc = "final"
    /\ LET j == thr[t].task
           job == [jobs[j] EXCEPT !.ran = @ \cup {"final"}, !.stage = "Done"]
           last == <<Ev("add_history", j, "", job.out_file, 0),
                     Ev("update_progress", j, "", NoPath, 0),
                     Ev("set_status", j, "Ready", NoPath, 0)>>
       IN  /\ ui_q' = ui_q \o last
           /\ \E fault \in BOOLEAN, fault2 \in BOOLEAN :
                /\ fault2 => fault
                /\ IF fault
                   THEN Raised(t, j, Log(Emit(job, last), "Completed", TRUE), fault2)
                   ELSE Returned(t, j, Log(Emit(job, last), "Completed", FALSE))
    /\ UNCHANGED <<tasks_q, workers, max_workers, history, status_var,
                   progress_var, notice, call>>

\* ------------------------------------------------------------- specifications
\* The pool under every interleaving of the four App handlers with the workers;
\* the jobs ask for no conversion, trim or subtitles.  The scheduled callbacks
\* stay queued: they write only the observer's variables, which no handler and
\* no worker reads.
Next ==
    \/ \E o \in PoolOpts : add_to_queue(o, MaxJobs)
    \/ clear_queue
    \/ \E cnt \in 0..MaxCount : start_workers(cnt, MaxThreads)
    \/ stop_workers
    \/ \E t \in Threads : WorkerLoop(t)
    \/ \E t \in Threads : WorkerGet(t)
    \/ \E t \in Threads : WorkerEmpty(t)
    \/ \E t \in Threads : Fetch(t, PoolExts)
    \/ \E t \in Threads : Final(t)

Spec == Init /\ [][Next]_vars

\* The pipeline of one worker under every combination of options and outcomes;
\* the scheduled callbacks stay queued.
PipeNext ==
    \/ \E o \in AllOpts : add_to_queue(o, PipeJobs)
    \/ start_workers(1, 1)
    \/ \E t \in Threads : WorkerLoop(t)
    \/ \E t \in Threads : WorkerGet(t)
    \/ \E t \in Threads : WorkerEmpty(t)
    \/ \E t \in Threads : Fetch(t, FetchedExts)
    \/ \E t \in Threads : Convert(t)
    \/ \E t \in Threads : Trim(t)
    \/ \E t \in Threads : Subs(t)
    \/ \E t \in Threads : Final(t)

PipeSpec == Init /\ [][PipeNext]_vars

\* The pipeline of one worker, stop_workers being called at any moment.
StopNext == PipeNext \/ stop_workers

StopSpec == Init /\ [][StopNext]_vars

\* A pool that is started and left running, every thread scheduled again and again;
\* the scheduled callbacks stay queued.
LiveNext ==
    \/ \E o \in PoolOpts : add_to_queue(o, LiveJobs)
    \/ \E cnt \in 1..MAX_WORKERS : start_workers(cnt, MAX_WORKERS)
    \/ \E t \in Threads : WorkerLoop(t)
    \/ \E t \in Threads : WorkerGet(t)
    \/ \E t \in Threads : WorkerEmpty(t)
    \/ \E t \in Threads : Fetch(t, PoolExts)
    \/ \E t \in Threads : Final(t)

WorkerFair(t) ==
    /\ WF_vars(WorkerLoop(t))
    /\ WF_vars(WorkerGet(t))
    /\ WF_vars(WorkerEmpty(t))
    /\ WF_vars(Fetch(t, PoolExts))
    /\ WF_vars(Final(t))

LiveSpec == Init /\ [][LiveNext]_vars /\ \A t \in Threads : WorkerFair(t)

\* A started pool and the Tk event loop, which runs the scheduled callbacks one at
\* a time, at any moment between the workers' steps.
ObsNext ==
    \/ \E o \in PoolOpts : add_to_queue(o, ObsJobs)
    \/ \E cnt \in 1..MAX_WORKERS : start_workers(cnt, MAX_WORKERS)
    \/ Dispatch
    \/ \E t \in Threads : WorkerLoop(t)
    \/ \E t \in Threads : WorkerGet(t)
    \/ \E t \in Threads : WorkerEmpty(t)
    \/ \E t \in Threads : Fetch(t, PoolExts)
    \/ \E t \in Threads : Final(t)

ObsSpec == Init /\ [][ObsNext]_vars


\* ------------------------------------------------------------- reading the state
Pushed == 1..Len(jobs)

Pending(j) == \E i \in 1..Len(tasks_q) : tasks_q[i] = j

Owners(j) == {t \in Threads : thr[t].task = j}

Terminal(j) == jobs[j].stage \in {"Done", "Failed"}

\* Pushed, never taken by a worker, and no longer in the queue.
Cleared(j) == jobs[j].stage = "Queued" /\ ~Pending(j) /\ Owners(j) = {}

Executing == {t \in Threads : thr[t].pc \in InTask}

\* The job has a history entry, appended or scheduled.
InHistory(j) ==
    \/ \E i \in 1..Len(history) : history[i].url = j
    \/ \E i \in 1..Len(ui_q) : ui_q[i].k = "add_history" /\ ui_q[i].j = j

LaterStages == {"convert", "trim", "trim_copy", "trim_reencode", "subs", "final"}

\* ------------------------------------------------------------- C1
FetchFailed(j) == jobs[j].err = "fetch"

FetchFailureEndsJob ==
    \A j \in Pushed :
      FetchFailed(j) =>
        /\ jobs[j].stage = "Failed"
        /\ jobs[j].ran \cap LaterStages = {}
        /\ jobs[j].disk = {}
        /\ Owners(j) = {}
        /\ ~InHistory(j)

FetchFailureTouchesOneJob ==
    \A j \in Pushed :
      (~FetchFailed(j) /\ FetchFailed(j)') =>
        /\ tasks_q' = tasks_q
        /\ workers' = workers
        /\ history' = history
        /\ \A k \in Pushed \ {j} : jobs'[k] = jobs[k]
        /\ \A u \in Threads : thr[u].task # j => thr'[u] = thr[u]
        /\ \A i \in 1..Len(ui_q') : i > Len(ui_q) => ui_q'[i].j = j /\ ui_q'[i].k = "showerror"
        /\ \A i \in 1..Len(ui_q) : ui_q'[i] = ui_q[i]

PathAfter(job) ==
    LET converted == IF "convert" \in job.ran /\ "convert" \notin job.failed
                     THEN Mp3Path(job.fetched) ELSE job.fetched
    IN  IF "trim" \in job.ran /\ "trim" \notin job.failed
        THEN TrimmedPath(converted) ELSE converted

TransformFailed(j) ==
    /\ "fetch" \in jobs[j].ran
    /\ ~FetchFailed(j)
    /\ jobs[j].failed \cap {"convert", "trim"} # {}

\* C2: a job whose fetch succeeded and whose Convert or Trim failed still runs
\* Subtitles (when asked for) and Finalize and ends Done with the path that was
\* current before the failed transform.
C2_TransformFailureNotFatal ==
    \A j \in Pushed :
      (TransformFailed(j) /\ Owners(j) = {}) =>
        /\ jobs[j].stage = "Done"
        /\ "final" \in jobs[j].ran
        /\ jobs[j].opts.subs => "subs" \in jobs[j].ran
        /\ jobs[j].out_file = PathAfter(jobs[j])

\* ------------------------------------------------------------- C3
\* C3: a job that is Done has exactly one file on disk, the one out_file names.
C3_OneFileAtEnd ==
    \A j \in Pushed : jobs[j].stage = "Done" => jobs[j].disk = {jobs[j].out_file}

\* ------------------------------------------------------------- C4
\* C4: a worker leaves its run loop only because its running flag was cleared.
C4_WorkerSurvivesFaults ==
    \A t \in Threads : thr[t].pc \in {"exited", "dead"} => ~thr[t].running


\* ------------------------------------------------------------- C5
\* C5: once the pool is started, every pushed job that is not cleared eventually
\* reaches Done or Failed.
Settled(j) == j \in Pushed /\ (Terminal(j) \/ Cleared(j))

C5_EveryJobTerminates ==
    \A j \in 1..LiveJobs :
      [](((j \in Pushed) /\ workers # <<>>) => <>Settled(j))

\* ------------------------------------------------------------- C6
\* C6: the jobs being executed at one time are never more than the worker count the
\* pool was last started with, and no job has two workers.
C6_AtMostNExecuting ==
    /\ Cardinality(Executing) <= max_workers
    /\ \A j \in Pushed : Cardinality(Owners(j)) <= 1

\* ------------------------------------------------------------- C7
\* The pending jobs are in push order, and every job that left the queue was pushed
\* before every job still pending.
QueueInPushOrder ==
    /\ \A i \in 1..Len(tasks_q) - 1 : tasks_q[i] < tasks_q[i + 1]
    /\ \A j \in Pushed : (~Pending(j) /\ tasks_q # <<>>) => j < Head(tasks_q)

\* A worker takes the job at the head of the queue.
DequeueTakesHead ==
    \A j \in Pushed :
      (Pending(j) /\ ~Pending(j)' /\ ~Cleared(j)') =>
        j = Head(tasks_q) /\ tasks_q' = Tail(tasks_q)

OneThread == Cardinality({t \in Threads : thr[t].pc # "unborn"}) <= 1

\* With one worker thread, a job is started only when every job pushed before it
\* has ended or was cleared.
OneWorkerInOrder ==
    OneThread =>
      \A i \in Pushed, j \in Pushed :
        (i < j /\ jobs[j].stage # "Queued") => Terminal(i) \/ Cleared(i)

ClearStep == \E j \in Pushed : Pending(j) /\ Cleared(j)'

\* C8: clear_queue leaves the queue empty and changes neither a job nor a worker.
C8_ClearRemovesPendingOnly ==
    [][ClearStep =>
         /\ tasks_q' = <<>>
         /\ thr' = thr
         /\ jobs' = jobs
         /\ UNCHANGED <<unfinished, workers, max_workers, ui_q, history>>]_vars

\* A job was cleared while a job pushed before it is still with its worker.
C8_Witness ==
    \E j \in Pushed, k \in Pushed : k < j /\ Cleared(j) /\ Owners(k) # {}

\* ------------------------------------------------------------- C9
AlreadyRunning == "Workers already running."

\* No thread is created while the list of workers is non-empty.
NoSpawnWhileStarted ==
    Len(workers) > 0 =>
      /\ \A t \in Threads : thr[t].pc = "unborn" => thr'[t].pc = "unborn"
      /\ workers' = workers \/ workers' = <<>>

\* The step that shows the message is taken with workers started and changes
\* nothing else.
RefusalIsNoOp ==
    (notice # AlreadyRunning /\ notice' = AlreadyRunning) =>
      /\ Len(workers) > 0
      /\ UNCHANGED <<tasks_q, unfinished, workers, max_workers, thr, jobs, ui_q,
                     history, status_var, progress_var>>

\* While workers are started, a call of start_workers shows the message.
RefusalIsTold ==
    (Len(workers) > 0 /\ notice # AlreadyRunning) =>
      ENABLED (/\ \E cnt \in 0..MaxCount : start_workers(cnt, MaxThreads)
               /\ notice' = AlreadyRunning)

\* C9: start_workers on a started pool spawns nothing, changes nothing and tells
\* the caller that workers are already running.
C9_StartTwiceIsRefused ==
    /\ []RefusalIsTold
    /\ [][NoSpawnWhileStarted /\ RefusalIsNoOp]_vars

\* start_workers was refused on a started pool.
C9_Witness == Len(workers) > 0 /\ notice = AlreadyRunning

\* ------------------------------------------------------------- C10
\* C10: when stop_workers returns, every worker of the stopped pool has its flag
\* cleared and has left its run loop.
C10_StopWaitsForWorkers ==
    [][(workers # <<>> /\ workers' = <<>>) =>
         \A i \in 1..Len(workers) :
           /\ ~thr'[workers[i]].running
           /\ thr'[workers[i]].pc \in {"exited", "dead"}]_vars

\* ------------------------------------------------------------- C11
\* C11: every App method a worker calls for a job goes through App.schedule; none
\* is run on the worker thread itself.
C11_ObserverCallsAreScheduled ==
    \A j \in Pushed : jobs[j].direct = {}

\* ------------------------------------------------------------- C12
\* The history entries of job j, appended or still scheduled, oldest first.
AppendsOf(j) ==
    SelectSeq(history, LAMBDA h : h.url = j)
      \o [i \in 1..Len(SelectSeq(ui_q, LAMBDA e : e.k = "add_history" /\ e.j = j)) |->
            [url |-> j,
             file |-> SelectSeq(ui_q, LAMBDA e : e.k = "add_history" /\ e.j = j)[i].file]]

\* One entry for a Done job, carrying the path process_task ended with; none for a
\* Failed job.
OneAppendPerDone ==
    \A j \in Pushed :
      /\ jobs[j].stage = "Done" =>
            /\ Len(AppendsOf(j)) = 1
            /\ AppendsOf(j)[1].file = jobs[j].out_file
            /\ AppendsOf(j)[1].file = PathAfter(jobs[j])
      /\ jobs[j].stage = "Failed" => Len(AppendsOf(j)) = 0

\* The path of every entry of a Done job names a file of that job on disk.
AppendedFileExists ==
    \A j \in Pushed :
      jobs[j].stage = "Done" =>
        \A i \in 1..Len(AppendsOf(j)) : AppendsOf(j)[i].file \in jobs[j].disk

\* An append puts the new entry in front of the entries there were.
AppendsAtFront == history' # history => Tail(history') = history

\* C12: a Done job has exactly one history entry, with its url and the path of the
\* file it delivered; a Failed job has none.
C12_OneHistoryEntryPerDone == OneAppendPerDone /\ AppendedFileExists

\* ------------------------------------------------------------- normalize
\* A text is a sequence of characters; a number is the sequence of its decimal
\* digits, most significant first, without leading zeros (zero is <<>>).
Digits == <<"0", "1", "2", "3", "4", "5", "6", "7", "8", "9">>

IsDigit(c) == \E d \in 1..10 : Digits[d] = c

DigitVal(c) == CHOOSE d \in 0..9 : Digits[d + 1] = c

\* Python's None, which is no text.
None == <<"None">>

RECURSIVE lstrip(_)
lstrip(s) == IF s # <<>> /\ Head(s) = " " THEN lstrip(Tail(s)) ELSE s

RECURSIVE rstrip(_)
rstrip(s) ==
    IF s # <<>> /\ s[Len(s)] = " " THEN rstrip(SubSeq(s, 1, Len(s) - 1)) ELSE s

\* ts.strip()
strip(s) == rstrip(lstrip(s))

RECURSIVE Canon(_)
Canon(d) == IF d # <<>> /\ Head(d) = 0 THEN Canon(Tail(d)) ELSE d

\* a < b, both without leading zeros.
Less(a, b) ==
    \/ Len(a) < Len(b)
    \/ /\ Len(a) = Len(b)
       /\ \E i \in 1..Len(a) : a[i] < b[i] /\ \A k \in 1..(i - 1) : a[k] = b[k]

RECURSIVE Succ(_)
Succ(d) ==
    IF d = <<>> THEN <<1>>
    ELSE IF d[Len(d)] < 9 THEN [d EXCEPT ![Len(d)] = @ + 1]
    ELSE Append(Succ(SubSeq(d, 1, Len(d) - 1)), 0)

\* 2^53 and 2^54: a double holds every whole number up to 2^53 and, from there to
\* 2^54, the even ones.
Two53 == <<9, 0, 0, 7, 1, 9, 9, 2, 5, 4, 7, 4, 0, 9, 9, 2>>

Two54 == <<1, 8, 0, 1, 4, 3, 9, 8, 5, 0, 9, 4, 8, 1, 9, 8, 4>>

\* The double nearest to the whole number d < 2^54, ties going to the even mantissa.
NearestDouble(d) ==
    CASE Less(d, Two53) -> d
      [] ~Less(d, Two53) /\ Less(d, Two54) ->
           LET low == (d[Len(d) - 1] * 10 + d[Len(d)]) % 4
           IN  CASE low \in {0, 2} -> d
                 [] low = 1 -> [d EXCEPT ![Len(d)] = @ - 1]
                 [] low = 3 -> Succ(d)

\* The text s without its sign.
Unsigned(s) == IF s # <<>> /\ Head(s) = "-" THEN Tail(s) ELSE s

\* The texts float() accepts among those made of digits, ".", "-", ":", " " and
\* letters: an optional "-", then digits with at most one "." among them.
IsFloatText(s) ==
    LET u == Unsigned(s)
    IN  /\ \A i \in 1..Len(u) : IsDigit(u[i]) \/ u[i] = "."
        /\ Cardinality({i \in 1..Len(u) : u[i] = "."}) <= 1
        /\ \E i \in 1..Len(u) : IsDigit(u[i])

\* The digits before the "." of an unsigned float text.
RECURSIVE IntPart(_)
IntPart(u) ==
    IF u = <<>> \/ Head(u) = "." THEN <<>>
    ELSE <<DigitVal(Head(u))>> \o IntPart(Tail(u))

\* abs(int(float(s))): int() drops the fraction of the double float() returns.
IntOfFloat(u) == NearestDouble(Canon(IntPart(u)))

\* d // k and d % k by long division; q and r carry the quotient and remainder.
RECURSIVE LongDiv(_, _, _, _)
LongDiv(d, k, q, r) ==
    IF d = <<>> THEN [quot |-> Canon(q), rem |-> r]
    ELSE LET cur == r * 10 + Head(d)
         IN  LongDiv(Tail(d), k, Append(q, cur \div k), cur % k)

\* The digits of the machine integer a >= 0.
RECURSIVE DigitsOfInt(_)
DigitsOfInt(a) == IF a = 0 THEN <<>> ELSE Append(DigitsOfInt(a \div 10), a % 10)

\* str(d)
Text(d) == [i \in 1..Len(d) |-> Digits[d[i] + 1]]

\* f"{d:02d}" for d >= 0
Pad2(d) ==
    CASE Len(d) = 0 -> <<"0", "0">>
      [] Len(d) = 1 -> <<"0">> \o Text(d)
      [] OTHER -> Text(d)

\* normalize without its sec = sec % 60.
normalize_whole_seconds(ts) ==
    LET s == strip(ts)
    IN  IF s = <<>> THEN None
        ELSE IF \E i \in 1..Len(s) : s[i] = ":" THEN s
        ELSE IF ~IsFloatText(s) THEN None
        ELSE LET mag == IntOfFloat(Unsigned(s))
                 neg == Head(s) = "-" /\ mag # <<>>
                 dm == LongDiv(mag, 3600, <<>>, 0)
                 up == neg /\ dm.rem # 0
                 h == IF up THEN Succ(dm.quot) ELSE dm.quot
                 r == IF up THEN 3600 - dm.rem ELSE dm.rem
                 hh == IF neg THEN <<"-">> \o Text(h) ELSE Pad2(h)
                 m == r \div 60
             IN  hh \o <<":">> \o Pad2(Canon(<<m \div 10, m % 10>>))
                    \o <<":">> \o Pad2(DigitsOfInt(r))

\* DownloadWorker.process_task.normalize
normalize(ts) ==
    LET s == strip(ts)
    IN  IF s = <<>> THEN None
        ELSE IF \E i \in 1..Len(s) : s[i] = ":" THEN s
        ELSE IF ~IsFloatText(s) THEN None
        ELSE LET mag == IntOfFloat(Unsigned(s))
                 neg == Head(s) = "-" /\ mag # <<>>
                 dm == LongDiv(mag, 3600, <<>>, 0)
                 up == neg /\ dm.rem # 0
                 h == IF up THEN Succ(dm.quot) ELSE dm.quot
                 r == IF up THEN 3600 - dm.rem ELSE dm.rem
                 hh == IF neg THEN <<"-">> \o Text(h) ELSE Pad2(h)
                 m == r \div 60
                 sec == r % 60
             IN  hh \o <<":">> \o Pad2(Canon(<<m \div 10, m % 10>>))
                    \o <<":">> \o Pad2(Canon(<<sec \div 10, sec % 10>>))

\* The characters a mark is typed from, and the marks tried: every short text,
\* marks already in HH:MM:SS form, and second counts up to and around 2^53.
MarkChars == {"0", "5", "9", ":", " ", ".", "-", "x"}

LongMarks ==
    {<<"0", "0", ":", "0", "1", ":", "3", "0">>,
     <<"1", "2", ":", "3", "4", ":", "5", "6">>,
     <<"3", "5", "9", "9">>, <<"3", "6", "0", "0">>, <<"8", "6", "3", "9", "9">>,
     <<"3", "6", "0", "0", "0", "0">>,
     Text(Two53), Text(Succ(Two53)), Text(Succ(Succ(Two53))),
     Text(Succ(Succ(Succ(Two53))))}

Marks == UNION {[1..k -> MarkChars] : k \in 0..MaxMarkLen} \cup LongMarks

\* ss = normalize(opts['start']) for a mark typed into the entry.
Normalize ==
    /\ call.f = "normalize"
    /\ call.n = 0
    /\ call' = [call EXCEPT !.n = 1, !.ss = normalize(call.ts)]
    /\ UNCHANGED appvars

\* The mark normalize returned is typed into the entry and normalized again.
NormalizeAgain ==
    /\ call.f = "normalize"
    /\ call.n = 1
    /\ call.ss # None
    /\ call' = [call EXCEPT !.n = 2, !.again = normalize(call.ss)]
    /\ UNCHANGED appvars

NormInit ==
    /\ AppInit
    /\ call \in {[f |-> "normalize", ts |-> x, n |-> 0, ss |-> None, again |-> None] :
                   x \in Marks}

NormNext == Normalize \/ NormalizeAgain

NormSpec == NormInit /\ [][NormNext]_vars

\* ------------------------------------------------------------- C13
IsHMS(t) ==
    /\ Len(t) = 8
    /\ t[3] = ":"
    /\ t[6] = ":"
    /\ \A i \in {1, 2, 4, 5, 7, 8} : IsDigit(t[i])

IsWhole(t) == t # <<>> /\ \A i \in 1..Len(t) : IsDigit(t[i])

NumberOf(t) == Canon([i \in 1..Len(t) |-> DigitVal(t[i])])

\* d * k + a
RECURSIVE MulAdd(_, _, _)
MulAdd(d, k, a) ==
    IF d = <<>> THEN DigitsOfInt(a)
    ELSE LET cur == d[Len(d)] * k + a
         IN  Append(MulAdd(SubSeq(d, 1, Len(d) - 1), k, cur \div 10), cur % 10)

\* t is hours:minutes:seconds, of two digits or more each, minutes and seconds
\* below 60, and counts n seconds.
ReadsAs(t, n) ==
    /\ Len(t) >= 8
    /\ t[Len(t) - 2] = ":"
    /\ t[Len(t) - 5] = ":"
    /\ \A i \in 1..Len(t) : i \notin {Len(t) - 2, Len(t) - 5} => IsDigit(t[i])
    /\ LET h == NumberOf(SubSeq(t, 1, Len(t) - 6))
           m == DigitVal(t[Len(t) - 4]) * 10 + DigitVal(t[Len(t) - 3])
           sec == DigitVal(t[Len(t) - 1]) * 10 + DigitVal(t[Len(t)])
       IN  /\ m < 60
           /\ sec < 60
           /\ Canon(MulAdd(h, 3600, m * 60 + sec)) = n

\* C13: a mark already in HH:MM:SS form is returned unchanged; a whole number of
\* seconds n >= 0 is returned as HH:MM:SS counting n seconds, with minutes and
\* seconds below 60; normalizing a returned mark returns it unchanged.
C13_NormalizeIsIdempotentAndExact ==
    (call.f = "normalize" /\ call.n >= 1) =>
      /\ IsHMS(call.ts) => call.ss = call.ts
      /\ IsWhole(strip(call.ts)) => ReadsAs(call.ss, NumberOf(strip(call.ts)))
      /\ call.n = 2 => call.again = call.ss

\* C13: as above, the second counts being those up to 2^53.
C13_ExactUpToTwo53 ==
    (call.f = "normalize" /\ call.n >= 1) =>
      /\ IsHMS(call.ts) => call.ss = call.ts
      /\ (IsWhole(strip(call.ts)) /\ Less(NumberOf(strip(call.ts)), Succ(Two53)))
            => ReadsAs(call.ss, NumberOf(strip(call.ts)))
      /\ call.n = 2 => call.again = call.ss

\* The count 2^53 was normalized, and the mark returned normalized again.
C13_Witness ==
    /\ call.f = "normalize"
    /\ call.n = 2
    /\ call.ts = Text(Two53)

\* ------------------------------------------------------------- format selection
\* An entry of info['formats']: kind tells whether it holds video only, audio only
\* or both; height 0 and filesize 0 stand for a value that is missing.  The list
\* is in yt_dlp's order, worst first.
NoFormat == [kind |-> "none", height |-> 0, filesize |-> 0]

VideoFormats ==
    [kind : {"video", "both"}, height : {360, 720}, filesize : {0, 5000}]

AudioFormats == [kind : {"audio"}, height : {0}, filesize : {0, 3000}]

FormatLists(F) == UNION {[1..k -> F] : k \in 0..MaxFormats}

\* The values of the quality box.
Qualities == {"best", "360p", "720p", "audio"}

\* q.endswith('p') and q[:-1].isdigit(), and then int(q[:-1]); 0 when q is no cap.
CapOf(q) ==
    CASE q = "360p" -> 360
      [] q = "720p" -> 720
      [] OTHER -> 0

\* The last entry of fs of the given kind and within the cap (0 for no cap),
\* NoFormat when there is none.
LastWhere(fs, kind, cap) ==
    LET m == SelectSeq(fs, LAMBDA f : /\ f.kind = kind
                                      /\ cap # 0 => (f.height # 0 /\ f.height <= cap))
    IN  IF m = <<>> THEN NoFormat ELSE m[Len(m)]

\* ydl_opts['format'] as process_task sets it: what is asked for first, the cap
\* on the height (0 for none); the alternative after "/" is always "best".
FormatString(audio_only, q) ==
    IF audio_only THEN [first |-> "bestaudio", cap |-> 0]
    ELSE [first |-> "bestvideo+bestaudio", cap |-> CapOf(q)]

\* What yt_dlp downloads for that format string: bestvideo is the best entry with
\* video only (of height known and within the cap, when there is one), bestaudio
\* the best with audio only, best the best with both, or the best of all when
\* every entry is video only or every entry is audio only.
FormatForFetch(audio_only, q, fs) ==
    LET fmt == FormatString(audio_only, q)
        v == LastWhere(fs, "video", fmt.cap)
        a == LastWhere(fs, "audio", 0)
        incomplete == \/ \A i \in 1..Len(fs) : fs[i].kind = "video"
                      \/ \A i \in 1..Len(fs) : fs[i].kind = "audio"
        b == IF incomplete /\ fs # <<>> THEN fs[Len(fs)]
             ELSE LastWhere(fs, "both", 0)
    IN  IF fmt.first = "bestaudio" /\ a # NoFormat
        THEN [err |-> FALSE, video |-> NoFormat, audio |-> a]
        ELSE IF fmt.first = "bestvideo+bestaudio" /\ v # NoFormat /\ a # NoFormat
        THEN [err |-> FALSE, video |-> v, audio |-> a]
        ELSE IF b # NoFormat
        THEN [err |-> FALSE, video |-> b, audio |-> b]
        ELSE [err |-> TRUE, video |-> NoFormat, audio |-> NoFormat]

\* max(cand, key=...): the first entry of cand whose key is the greatest.
MaxBy(cand, key) ==
    cand[CHOOSE i \in 1..Len(cand) :
           /\ \A k \in 1..Len(cand) : cand[k][key] <= cand[i][key]
           /\ \A k \in 1..(i - 1) : cand[k][key] < cand[i][key]]

\* sel as App.estimate picks it when audio_only is off; NoFormat stands for None.
EstimateSel(q, formats) ==
    IF q = "best"
    THEN IF formats # <<>> THEN formats[Len(formats)] ELSE NoFormat
    ELSE IF CapOf(q) # 0
    THEN LET cand == SelectSeq(formats, LAMBDA f : /\ f.height # 0
                                                   /\ f.height <= CapOf(q)
                                                   /\ f.filesize # 0)
         IN  IF cand # <<>> THEN MaxBy(cand, "height") ELSE NoFormat
    ELSE LET cand == SelectSeq(formats, LAMBDA f : f.filesize # 0)
         IN  IF cand # <<>> THEN MaxBy(cand, "filesize") ELSE NoFormat

\* est_bytes = sel.get('filesize') ...: a sel of None raises AttributeError.
SelRaises(q, formats) == EstimateSel(q, formats) = NoFormat

\* process_task picks the format of a job: ydl_opts['format'], resolved by yt_dlp.
SelectForFetch ==
    /\ call.f = "select"
    /\ ~call.fetched
    /\ call' = [call EXCEPT !.fetched = TRUE,
                            !.fetch = FormatForFetch(call.audio_only, call.q, call.formats)]
    /\ UNCHANGED appvars

\* App.estimate picks the format whose size it reports (audio_only being off).
SelectForEstimate ==
    /\ call.f = "select"
    /\ ~call.audio_only
    /\ ~call.estimated
    /\ call' = [call EXCEPT !.estimated = TRUE,
                            !.est = [err |-> SelRaises(call.q, call.formats),
                                     video |-> EstimateSel(call.q, call.formats)]]
    /\ UNCHANGED appvars

SelInit ==
    /\ AppInit
    /\ call \in {[f |-> "select", audio_only |-> a, q |-> q, formats |-> fs,
                   fetched |-> FALSE, estimated |-> FALSE,
                   fetch |-> [err |-> FALSE, video |-> NoFormat, audio |-> NoFormat],
                   est |-> [err |-> FALSE, video |-> NoFormat]] :
                    a \in BOOLEAN, q \in Qualities,
                    fs \in FormatLists(VideoFormats \cup AudioFormats)}

SelNext == SelectForFetch \/ SelectForEstimate

SelSpec == SelInit /\ [][SelNext]_vars

\* ------------------------------------------------------------- C14
\* The request is CappedHeight(h) and there is a format to pick.
Capped == call.f = "select" /\ ~call.audio_only /\ CapOf(call.q) # 0 /\ call.formats # <<>>

\* Some format has video of a height within the cap.
CandidateWithin ==
    \E i \in 1..Len(call.formats) :
      call.formats[i].height # 0 /\ call.formats[i].height <= CapOf(call.q)

\* picked is right for the cap; best is what quality "best" gives.
RightForCap(picked, best) ==
    /\ ~picked.err
    /\ CandidateWithin => (picked.video.height # 0 /\ picked.video.height <= CapOf(call.q))
    /\ ~CandidateWithin => (~best.err /\ picked.video = best.video)

\* C14: for a capped quality the pipeline and the estimator select a format of a
\* height within the cap whenever one exists, the unconstrained best one when none
\* exists, and never end in an error.
C14_CappedHeightSelection ==
    Capped =>
      /\ call.fetched =>
            RightForCap(call.fetch, FormatForFetch(FALSE, "best", call.formats))
      /\ call.estimated =>
            RightForCap(call.est, [err |-> SelRaises("best", call.formats),
                                   video |-> EstimateSel("best", call.formats)])

\* ------------------------------------------------------------- estimate
\* One request of quick_speed_test: it raised, or total bytes arrived in dt seconds
\* by the clock.
ProbeOutcomes ==
    {[raised |-> TRUE, total |-> 0, dt |-> 0],
     [raised |-> FALSE, total |-> 0, dt |-> 1],
     [raised |-> FALSE, total |-> 250000, dt |-> 0],
     [raised |-> FALSE, total |-> 250000, dt |-> 2]}

\* quick_speed_test: the first request that did not raise and took time gives
\* total / (t1 - t0), kept as a fraction; none stands for None.
RECURSIVE quick_speed_test(_)
quick_speed_test(outs) ==
    IF outs = <<>> THEN [none |-> TRUE, num |-> 0, den |-> 1]
    ELSE IF ~Head(outs).raised /\ Head(outs).dt > 0
    THEN [none |-> FALSE, num |-> Head(outs).total, den |-> Head(outs).dt]
    ELSE quick_speed_test(Tail(outs))

Units == <<"B", "KB", "MB", "GB", "TB">>

\* round(x / d) to the nearest whole number, ties to the even one.
RoundDiv(x, d) ==
    LET q == x \div d
        r == x % d
    IN  IF 2 * r > d \/ (2 * r = d /\ q % 2 = 1) THEN q + 1 ELSE q

\* The loop of human_size from unit u on: den is 1024 to the power u - 1.
RECURSIVE SizeFrom(_, _, _)
SizeFrom(b, u, den) ==
    IF u > Len(Units)
    THEN [unknown |-> FALSE, unit |-> "PB", hundredths |-> RoundDiv(b * 100, den)]
    ELSE IF b < 1024 * den
    THEN [unknown |-> FALSE, unit |-> Units[u], hundredths |-> RoundDiv(b * 100, den)]
    ELSE SizeFrom(b, u + 1, den * 1024)

\* human_size: "Unknown" for None or 0, else the size to two decimals with its unit.
human_size(bytesize) ==
    IF bytesize = 0 THEN [unknown |-> TRUE, unit |-> "", hundredths |-> 0]
    ELSE SizeFrom(bytesize, 1, 1)

Unknown == [unknown |-> TRUE, mins |-> 0, secs |-> 0]

\* The formats and the metadata of the estimate's info; 0 stands for a missing value.
EstFormats == [kind : {"both"}, height : {360, 720}, filesize : {0, 5000}]

Infos ==
    [ok : BOOLEAN, formats : FormatLists(EstFormats), abr : {0, 64}, duration : {0, 10},
     filesize : {0, 7000}]

\* App.estimate, the url being non-empty.  box is the error box shown, said tells
\* whether estimate_label_var was set, size and eta are what it was set to.
estimate(audio_only, q, info, outs) ==
    LET failed == [raised |-> FALSE, box |-> "Estimate failed", said |-> FALSE,
                   size |-> human_size(0), eta |-> Unknown]
        abr == IF info.abr # 0 THEN info.abr ELSE 128
        sel == EstimateSel(q, info.formats)
        est_bytes == IF audio_only THEN ((abr * 1000) \div 8) * info.duration
                     ELSE IF sel.filesize # 0 THEN sel.filesize ELSE info.filesize
        spd == quick_speed_test(outs)
        eta == (est_bytes * spd.den) \div spd.num
        eta_str == IF ~spd.none /\ spd.num # 0 /\ est_bytes # 0
                   THEN [unknown |-> FALSE, mins |-> eta \div 60, secs |-> eta % 60]
                   ELSE Unknown
    IN  IF ~info.ok THEN failed
        ELSE IF ~audio_only /\ sel = NoFormat THEN failed
        ELSE [raised |-> FALSE, box |-> "", said |-> TRUE,
              size |-> human_size(est_bytes), eta |-> eta_str]

\* The Estimate button is pressed.
Estimate ==
    /\ call.f = "estimate"
    /\ ~call.done
    /\ call' = [call EXCEPT !.done = TRUE,
                            !.res = estimate(call.audio_only, call.q, call.info, call.outs)]
    /\ UNCHANGED appvars

EstInit ==
    /\ AppInit
    /\ call \in {[f |-> "estimate", audio_only |-> a, q |-> q, info |-> info,
                   outs |-> <<o1, o2>>, done |-> FALSE,
                   res |-> [raised |-> FALSE, box |-> "", said |-> FALSE,
                            size |-> human_size(0), eta |-> Unknown]] :
                    a \in BOOLEAN, q \in Qualities, info \in Infos,
                    o1 \in ProbeOutcomes, o2 \in ProbeOutcomes}

EstNext == Estimate

EstSpec == EstInit /\ [][EstNext]_vars

\* ------------------------------------------------------------- C15
\* The size estimate has for the request, 0 when there is none.
SizeFound ==
    IF call.audio_only
    THEN (IF call.info.abr # 0 THEN call.info.abr ELSE 128) * 125 * call.info.duration
    ELSE IF EstimateSel(call.q, call.info.formats).filesize # 0
    THEN EstimateSel(call.q, call.info.formats).filesize
    ELSE call.info.filesize

ProbeFailed == \A i \in 1..Len(call.outs) : call.outs[i].raised

\* C15: with the metadata fetched, estimate raises nothing and reports its result;
\* the ETA is "Unknown" when the probe failed or no size was found, the size is
\* "Unknown" when no size was found, and no number reported is negative.
C15_EstimateDegradesToUnknown ==
    (call.f = "estimate" /\ call.done /\ call.info.ok) =>
      /\ ~call.res.raised
      /\ call.res.said
      /\ call.res.box = ""
      /\ (ProbeFailed \/ SizeFound = 0) => call.res.eta = Unknown
      /\ SizeFound = 0 => call.res.size.unknown
      /\ call.res.eta.mins >= 0 /\ call.res.eta.secs >= 0
      /\ call.res.size.hundredths >= 0

\* ------------------------------------------------------------- progress hook
\* yt_dlp calls the hook with d.
ProgressHook ==
    /\ call.f = "progress"
    /\ ~call.done
    /\ call' = [call EXCEPT !.done = TRUE, !.scheduled = progress(1, call.d)]
    /\ UNCHANGED appvars

ProgInit ==
    /\ AppInit
    /\ call \in {[f |-> "progress", d |-> d, done |-> FALSE, scheduled |-> <<>>] :
                    d \in ProgressDicts}

ProgNext == ProgressHook

ProgSpec == ProgInit /\ [][ProgNext]_vars

\* ------------------------------------------------------------- C16
\* The total of the event, known or estimated, 0 when there is neither.
TotalOf(d) == IF d.total_bytes # 0 THEN d.total_bytes ELSE d.total_bytes_estimate

\* The percents the hook forwarded for a "downloading" event.
Forwarded ==
    {call.scheduled[i].pct : i \in {k \in 1..Len(call.scheduled) :
                                      call.scheduled[k].k = "update_progress"}}

\* The percent forwarded is downloaded / total * 100, and 0 without a total.
PercentIsRatio ==
    (call.f = "progress" /\ call.done /\ call.d.status = "downloading") =>
      /\ Forwarded # {}
      /\ \A p \in Forwarded :
           IF TotalOf(call.d) = 0 THEN p = 0
           ELSE /\ p * TotalOf(call.d) <= call.d.downloaded_bytes * 10000
                /\ (p + 1) * TotalOf(call.d) > call.d.downloaded_bytes * 10000

\* The percent forwarded is between 0 and 100.
PercentInRange ==
    (call.f = "progress" /\ call.done) => \A p \in Forwarded : p >= 0 /\ p <= 10000

\* C16: the percent forwarded for a progress event is downloaded / total * 100, is
\* 0 when the total is unknown or zero, and lies between 0 and 100.
C16_PercentInRange == PercentIsRatio /\ PercentInRange

\* ------------------------------------------------------------- C17
\* The stage process_task reaches after the stage at pc.
StageAfter(pc, o) ==
    CASE pc = "fetch" -> AfterFetch(o)
      [] pc = "convert" -> AfterConvert(o)
      [] pc = "trim" -> AfterTrim(o)
      [] pc = "subs" -> "final"
      [] pc = "final" -> "loop"

\* The stages a job with options o runs when none of them ends it.
StagesOf(o) ==
    {"fetch", "final"}
      \cup (IF o.audio_only /\ o.convert_mp3 THEN {"convert"} ELSE {})
      \cup (IF o.trim THEN {"trim"} ELSE {})
      \cup (IF o.subs THEN {"subs"} ELSE {})

\* A step that clears a worker's flag leaves the worker where it is and its job
\* as it is.
StopSparesJob ==
    \A t \in Threads :
      (thr[t].running /\ ~thr'[t].running) =>
        /\ thr'[t].pc = thr[t].pc
        /\ thr'[t].task = thr[t].task
        /\ thr[t].task # 0 => jobs'[thr[t].task] = jobs[thr[t].task]

\* A worker inside a job, stopped or not, goes from a stage to the stage that
\* follows it, and leaves the job only with the job Done or Failed.
JobRunsOn ==
    \A t \in Threads :
      (thr[t].pc \in InTask /\ thr'[t].pc # thr[t].pc) =>
        IF thr'[t].pc \in InTask
        THEN /\ thr'[t].pc = StageAfter(thr[t].pc, jobs[thr[t].task].opts)
             /\ thr'[t].task = thr[t].task
        ELSE /\ thr'[t].pc \in {"loop", "dead"}
             /\ jobs'[thr[t].task].stage \in {"Done", "Failed"}

\* A worker inside a job can take its next step whatever its flag, and a job that
\* is Done has run every stage asked for and has its history entry.
StoppedJobCompletes ==
    /\ \A t \in Threads :
         thr[t].pc \in InTask =>
           ENABLED (\/ Fetch(t, FetchedExts) \/ Convert(t) \/ Trim(t) \/ Subs(t) \/ Final(t))
    /\ \A j \in Pushed :
         jobs[j].stage = "Done" =>
           /\ StagesOf(jobs[j].opts) \subseteq jobs[j].ran
           /\ InHistory(j)

\* C17: stop_workers in the middle of a job does not preempt it: the worker runs
\* the remaining stages and the job ends Done, with its history entry, or Failed.
C17_StopDoesNotPreempt ==
    /\ []StoppedJobCompletes
    /\ [][StopSparesJob /\ JobRunsOn]_vars

\* A job asking for every stage was in its fetch when its worker was stopped, and
\* is Done.
C17_Witness ==
    \E t \in Threads :
      /\ thr[t].stopped_in # 0
      /\ jobs[thr[t].stopped_in].opts = FullOpts
      /\ jobs[thr[t].stopped_in].stage = "Done"
      /\ thr[t].pc = "exited"

\* ------------------------------------------------------------- C18
\* a can be read off b from left to right, skipping elements of b.
RECURSIVE IsSubseq(_, _)
IsSubseq(a, b) ==
    IF a = <<>> THEN TRUE
    ELSE IF b = <<>> THEN FALSE
    ELSE IF Head(a) = Head(b) THEN IsSubseq(Tail(a), Tail(b))
    ELSE IsSubseq(a, Tail(b))

\* C18: the App calls a worker issued for a job run in the order in which the
\* worker issued them.
C18_PerJobEventOrder ==
    \A j \in Pushed : IsSubseq(jobs[j].seen, jobs[j].emitted)

\* The same, the lines written by App.log left out.
ScheduledInOrder ==
    \A j \in Pushed :
      IsSubseq(SelectSeq(jobs[j].seen, LAMBDA e : e[1] # "log"),
               SelectSeq(jobs[j].emitted, LAMBDA e : e[1] # "log"))

\* ------------------------------------------------------------- C19
\* The job is past its Trim stage.
Trimmed(j) == "trim" \in jobs[j].ran /\ thr[1].pc # "trim"

\* out_file as the Trim stage found it.
BeforeTrim(job) ==
    IF "convert" \in job.ran /\ "convert" \notin job.failed
    THEN Mp3Path(job.fetched) ELSE job.fetched

Ended(job, cmd, how) == \E i \in 1..Len(job.cmds) : job.cmds[i] = <<cmd, how>>

TimesRun(job, cmd) == Cardinality({i \in 1..Len(job.cmds) : job.cmds[i][1] = cmd})

\* C19: the stream-copy command is run first; the re-encoding command is run if and
\* only if the stream copy exited non-zero, and once at most; out_file becomes the
\* trimmed file, the untrimmed one being removed, if and only if one of the two
\* commands succeeded; otherwise it stays the untrimmed file and the failure is
\* logged.
C19_TrimFallback ==
    \A j \in Pushed :
      Trimmed(j) =>
        LET job == jobs[j]
            cut == Ended(job, "trim_copy", "ok") \/ Ended(job, "trim_reencode", "ok")
        IN  /\ job.cmds[1][1] = "trim_copy"
            /\ TimesRun(job, "trim_copy") = 1
            /\ TimesRun(job, "trim_reencode") <= 1
            /\ TimesRun(job, "trim_reencode") = 1 <=> Ended(job, "trim_copy", "nonzero")
            /\ cut <=> /\ job.out_file = TrimmedPath(BeforeTrim(job))
                       /\ BeforeTrim(job) \notin job.disk
            /\ ~cut => /\ job.out_file = BeforeTrim(job)
                       /\ \E i \in 1..Len(job.emitted) :
                            job.emitted[i] = <<"log", "Trim failed">>

\* C19 with "succeeded" read as: the command succeeded and the untrimmed file was
\* removed, so that the try block ran to its end.
TrimFallbackWhenRemoved ==
    \A j \in Pushed :
      Trimmed(j) =>
        LET job == jobs[j]
            cut == /\ Ended(job, "trim_copy", "ok") \/ Ended(job, "trim_reencode", "ok")
                   /\ "trim" \notin job.failed
        IN  /\ job.cmds[1][1] = "trim_copy"
            /\ TimesRun(job, "trim_copy") = 1
            /\ TimesRun(job, "trim_reencode") <= 1
            /\ TimesRun(job, "trim_reencode") = 1 <=> Ended(job, "trim_copy", "nonzero")
            /\ cut <=> /\ job.out_file = TrimmedPath(BeforeTrim(job))
                       /\ BeforeTrim(job) \notin job.disk
            /\ ~cut => /\ job.out_file = BeforeTrim(job)
                       /\ \E i \in 1..Len(job.emitted) :
                            job.emitted[i] = <<"log", "Trim failed">>

\* ------------------------------------------------------------- C20
\* The places of the queue that hold job j.
Places(j) == {i \in 1..Len(tasks_q) : tasks_q[i] = j}

\* The job left the queue and no worker's get returned it.
Removed(j) == jobs[j].gets = 0 /\ Places(j) = {}

\* Pending, owned by a worker, terminal, removed by clear_queue: how many of the
\* four hold of job j, a place of the queue or an owner counting once each.
ClassesOf(j) ==
    Cardinality(Places(j)) + Cardinality(Owners(j))
      + (IF Terminal(j) THEN 1 ELSE 0) + (IF Removed(j) THEN 1 ELSE 0)

InOneClass == \A j \in Pushed : ClassesOf(j) = 1 /\ jobs[j].gets <= 1

\* A job leaves the queue for one worker or by a clear_queue, never comes back to
\* it, and once it has ended or was removed it stays as it is.
NeverTakenTwice ==
    \A j \in Pushed :
      /\ (Places(j) # {} /\ Places(j)' = {}) =>
            \/ Removed(j)' /\ tasks_q' = <<>> /\ thr' = thr
            \/ /\ jobs'[j].gets = 1
               /\ \E t \in Threads :
                    /\ thr[t].pc = "get"
                    /\ thr'[t].task = j \/ Terminal(j)'
                    /\ \A u \in Threads \ {t} : thr'[u] = thr[u]
      /\ Places(j) = {} => Places(j)' = {}
      /\ Terminal(j) => jobs'[j].stage = jobs[j].stage /\ jobs'[j].ran = jobs[j].ran
      /\ Removed(j) => Removed(j)' /\ jobs'[j] = jobs[j]
      /\ jobs'[j].gets >= jobs[j].gets

\* C20: every pushed job is in exactly one of pending, owned by one worker,
\* terminal, removed by clear_queue; it is dequeued by one worker at most and
\* processed once at most.
C20_NoJobLostOrDuplicated == []InOneClass /\ [][NeverTakenTwice]_vars

\* Two workers were started; one job has ended after one of them took it, and a
\* job pushed after it was removed by clear_queue.
C20_Witness ==
    /\ Cardinality({t \in Threads : thr[t].pc # "unborn"}) = 2
    /\ \E j \in Pushed, k \in Pushed :
         /\ j < k
         /\ Terminal(j) /\ jobs[j].gets = 1 /\ "final" \in jobs[j].ran
         /\ Removed(k)

\* ------------------------------------------------------------- C21
\* stop() was called on thread t.
Stopped(t) == thr[t].pc # "unborn" /\ ~thr[t].running

\* The step is thread t's q.get() returning job j.
Takes(t, j) ==
    /\ thr[t].pc = "get"
    /\ thr'[t].pc # "get"
    /\ tasks_q # <<>>
    /\ Head(tasks_q) = j
    /\ tasks_q' = Tail(tasks_q)
    /\ jobs'[j].gets = jobs[j].gets + 1

\* Job j was pushed after stop() was called on thread t.
PushedAfterStop(t, j) == Stopped(t) /\ j > thr[t].stopped_at

StoppedTakesNothing == \A t \in Threads, j \in Pushed : Stopped(t) => ~Takes(t, j)

StoppedLeavesLaterJobs ==
    \A t \in Threads, j \in Pushed : PushedAfterStop(t, j) => ~Takes(t, j)

\* C21: a worker whose running flag stop_workers has cleared dequeues no further
\* job; a job pushed after the stop is not taken by that worker.
C21_StoppedWorkerTakesNothing ==
    [][StoppedTakesNothing]_vars /\ [][StoppedLeavesLaterJobs]_vars

\* A job pushed after the stop is never taken by the stopped worker.
LaterJobStaysPending == [][StoppedLeavesLaterJobs]_vars

\* A worker that finds its flag cleared at the while test takes no job afterwards.
ExitedTakesNothing ==
    [][\A t \in Threads, j \in Pushed : thr[t].pc = "exited" => ~Takes(t, j)]_vars

====
